---- MODULE Spec2Model ----
(***************************************************************************)
(* Model of gabhil.py: the annotation formatter, the recursive grouping    *)
(* renderer, the document assembler and the per-message loop of            *)
(* process_emails.  Python strings are sequences of one-character strings, *)
(* so that line breaks, indentation and ordering are computed, not assumed.*)
(***************************************************************************)
EXTENDS Integers, Sequences, FiniteSets, TLC

VARIABLES cfg, mailbox, files, stdout, pc, idx, metadata, annotations, md,
          status, rkeys, ranns, rindent, rop, rout, rerr, rpost

\* cfg          self.cfg, the Config options
\* mailbox      the html of the messages the search returned, in id_list order
\* files        the file system: file name -> contents
\* stdout       what print has written
\* pc, idx      the position of process_emails and of its loop over id_list
\* metadata, annotations, md   the locals of the loop body
\* status       running, returned, or crashed (an uncaught exception)
\* rkeys, ranns, rindent      the arguments of a direct call of group_and_dump
\*                            or _format_annotation
\* rop, rout, rerr, rpost     the call made, its result, the exception raised
\*                            and the annotations after it
vars == <<cfg, mailbox, files, stdout, pc, idx, metadata, annotations, md,
          status, rkeys, ranns, rindent, rop, rout, rerr, rpost>>

pipevars == <<mailbox, files, stdout, pc, idx, metadata, annotations, md, status>>

rendervars == <<rkeys, ranns, rindent, rop, rout, rerr, rpost>>

\* ------------------------------------------------------------------ bounds
MaxAnns == 3

MaxKeys == 2

MaxMsgs == 2

\* ------------------------------------------------------- strings of Python
NL == "\n"

Whitespace == {" ", NL}

\* code points, the order Python compares str by
Ord(c) ==
    CASE c = NL -> 10
      [] c = " " -> 32
      [] c = "1" -> 49
      [] c = "2" -> 50
      [] c = "a" -> 97
      [] c = "b" -> 98
      [] c = "c" -> 99
      [] c = "d" -> 100
      [] c = "g" -> 103
      [] c = "n" -> 110
      [] c = "y" -> 121
      [] OTHER -> 63

RECURSIVE StrLess(_, _)
StrLess(s, t) ==
    IF t = <<>> THEN FALSE
    ELSE IF s = <<>> THEN TRUE
    ELSE IF Ord(Head(s)) < Ord(Head(t)) THEN TRUE
    ELSE IF Ord(Head(s)) > Ord(Head(t)) THEN FALSE
    ELSE StrLess(Tail(s), Tail(t))

Spaces(n) == [i \in 1..n |-> " "]

Hashes(n) == [i \in 1..n |-> "#"]

\* " ".join(s.split())
RECURSIVE Collapse(_, _, _, _)
Collapse(s, i, acc, gap) ==
    IF i > Len(s) THEN acc
    ELSE IF s[i] \in Whitespace THEN Collapse(s, i + 1, acc, acc /= <<>>)
    ELSE Collapse(s, i + 1,
                  acc \o (IF gap THEN <<" ">> ELSE <<>>) \o <<s[i]>>, FALSE)

JoinSplit(s) == Collapse(s, 1, <<>>, FALSE)

\* s.strip()
RECURSIVE LStrip(_)
LStrip(s) ==
    IF s /= <<>> /\ Head(s) \in Whitespace THEN LStrip(Tail(s)) ELSE s

RECURSIVE RStrip(_)
RStrip(s) ==
    IF s /= <<>> /\ s[Len(s)] \in Whitespace
    THEN RStrip(SubSeq(s, 1, Len(s) - 1)) ELSE s

Strip(s) == RStrip(LStrip(s))

\* s.split("\n")[0]
RECURSIVE FirstLine(_)
FirstLine(s) ==
    IF s = <<>> \/ Head(s) = NL THEN <<>>
    ELSE <<Head(s)>> \o FirstLine(Tail(s))

\* "\n".join(lines)
RECURSIVE JoinLines(_)
JoinLines(ls) ==
    IF ls = <<>> THEN <<>>
    ELSE IF Len(ls) = 1 THEN ls[1]
    ELSE ls[1] \o <<NL>> \o JoinLines(Tail(ls))

\* ------------------------------------------------------------ data classes
AnnotationFields == {"date", "chapter", "color", "text", "note"}

Annotation(d, ch, co, t, n) ==
    [date |-> d, chapter |-> ch, color |-> co, text |-> t, note |-> n]

NoteKey == <<"n", "o", "t", "e">>

HeadingTokens == {Hashes(1), Hashes(2), Hashes(3), Hashes(4)}

\* color_map.get(k, "")
ColorMapGet(k) == IF k \in DOMAIN cfg.color_map THEN cfg.color_map[k] ELSE <<>>

\* ------------------------------------------------------ _format_annotation
\* a.text after the call (line 71 rewrites it in place)
TextAfterFormat(a) ==
    IF ColorMapGet(a.color) \in HeadingTokens /\ cfg.join_titles
    THEN JoinSplit(a.text) ELSE a.text

\* variant: the note line starts at the annotation's own indent
format_annotation_flat_note(a, indent) ==
    LET prefix0 == ColorMapGet(a.color)
        prefix == IF prefix0 /= <<>> THEN prefix0 \o <<" ">> ELSE prefix0
        l1 == indent \o <<"-", " ">> \o prefix \o TextAfterFormat(a)
        l2 == IF cfg.include_chapter_in_notes
              THEN l1 \o <<" ", "(", "C", "h", "a", "p", "t", "e", "r", " ", "'">>
                      \o a.chapter \o <<"'", ")">>
              ELSE l1
        l3 == IF cfg.include_date_in_notes
              THEN l2 \o <<"(">> \o a.date \o <<")">>
              ELSE l2
        icon0 == ColorMapGet(NoteKey)
        icon == IF icon0 /= <<>> THEN icon0 \o <<" ">> ELSE icon0
    IN  IF a.note /= <<>>
        THEN l3 \o <<NL>> \o indent \o <<"-", " ">> \o icon \o a.note
        ELSE l3

format_annotation(a, indent) ==
    LET prefix0 == ColorMapGet(a.color)
        text == TextAfterFormat(a)
        prefix == IF prefix0 /= <<>> THEN prefix0 \o <<" ">> ELSE prefix0
        l1 == indent \o <<"-", " ">> \o prefix \o text
        l2 == IF cfg.include_chapter_in_notes
              THEN l1 \o <<" ", "(", "C", "h", "a", "p", "t", "e", "r", " ", "'">>
                      \o a.chapter \o <<"'", ")">>
              ELSE l1
        l3 == IF cfg.include_date_in_notes
              THEN l2 \o <<"(">> \o a.date \o <<")">>
              ELSE l2
        icon0 == ColorMapGet(NoteKey)
        icon == IF icon0 /= <<>> THEN icon0 \o <<" ">> ELSE icon0
    IN  IF a.note /= <<>>
        THEN l3 \o <<NL>> \o indent \o Spaces(4) \o <<"-", " ">> \o icon \o a.note
        ELSE l3

\* ---------------------------------------------------------- group_and_dump
\* hasattr(annotations[0], key), for the key names a configuration gives
HasAttr(key) == key \in AnnotationFields

\* annotations[0] is evaluated only when group_keys is non-empty (line 124)
RaisesIndexError(group_keys, anns) == group_keys /= <<>> /\ anns = <<>>

NoKey == "None"

\* variant: skips unknown keys and groups on the first known one
RECURSIVE GroupKeyFirstKnown(_)
GroupKeyFirstKnown(group_keys) ==
    IF group_keys = <<>> THEN NoKey
    ELSE IF HasAttr(group_keys[1]) THEN group_keys[1]
    ELSE GroupKeyFirstKnown(Tail(group_keys))

GroupKey(group_keys) ==
    IF group_keys = <<>> \/ ~HasAttr(group_keys[1]) THEN NoKey
    ELSE group_keys[1]

\* variant: an unstable sort, a new element goes before its equals
RECURSIVE InsertSortedUnstable(_, _, _)
InsertSortedUnstable(sorted, a, k) ==
    IF sorted = <<>> THEN <<a>>
    ELSE IF ~StrLess(Head(sorted)[k], a[k]) THEN <<a>> \o sorted
    ELSE <<Head(sorted)>> \o InsertSortedUnstable(Tail(sorted), a, k)

\* sorted(annotations, key=key): stable
RECURSIVE InsertSorted(_, _, _)
InsertSorted(sorted, a, k) ==
    IF sorted = <<>> THEN <<a>>
    ELSE IF StrLess(a[k], Head(sorted)[k]) THEN <<a>> \o sorted
    ELSE <<Head(sorted)>> \o InsertSorted(Tail(sorted), a, k)

\* variant: groupby on the list as given, without the sort
Unsorted(anns, k) == anns

RECURSIVE Sorted(_, _)
Sorted(anns, k) ==
    IF anns = <<>> THEN <<>>
    ELSE InsertSorted(Sorted(SubSeq(anns, 1, Len(anns) - 1), k), anns[Len(anns)], k)

\* groupby + groups[k] = list(g): a dict in insertion order, as a sequence
\* of <<key, members>>; a repeated key overwrites the earlier entry
DictSet(groups, k, g) ==
    IF \E i \in 1..Len(groups) : groups[i][1] = k
    THEN [i \in 1..Len(groups) |->
             IF groups[i][1] = k THEN <<k, g>> ELSE groups[i]]
    ELSE Append(groups, <<k, g>>)

\* variant: a group keeps only the first member of its run
RECURSIVE GroupByFirstOfRun(_, _, _)
GroupByFirstOfRun(sorted, k, groups) ==
    IF sorted = <<>> THEN groups
    ELSE LET v == Head(sorted)[k]
             RunLen == CHOOSE n \in 1..Len(sorted) :
                          /\ \A i \in 1..n : sorted[i][k] = v
                          /\ (n = Len(sorted) \/ sorted[n + 1][k] /= v)
         IN  GroupByFirstOfRun(SubSeq(sorted, RunLen + 1, Len(sorted)), k,
                               DictSet(groups, v, SubSeq(sorted, 1, 1)))

RECURSIVE GroupBy(_, _, _)
GroupBy(sorted, k, groups) ==
    IF sorted = <<>> THEN groups
    ELSE LET v == Head(sorted)[k]
             RunLen == CHOOSE n \in 1..Len(sorted) :
                          /\ \A i \in 1..n : sorted[i][k] = v
                          /\ (n = Len(sorted) \/ sorted[n + 1][k] /= v)
         IN  GroupBy(SubSeq(sorted, RunLen + 1, Len(sorted)), k,
                     DictSet(groups, v, SubSeq(sorted, 1, RunLen)))

\* variant: "#" * level, one '#' short
HeaderOneShort(indent, group) ==
    LET level == Len(indent) \div 4
    IN  indent \o <<"-", " ">> \o Hashes(level) \o <<" ">> \o group

Header(indent, group) ==
    LET level == Len(indent) \div 4
    IN  indent \o <<"-", " ">> \o Hashes(level + 1) \o <<" ">> \o group

RECURSIVE group_and_dump(_, _, _)
RECURSIVE DumpGroups(_, _, _)
DumpGroups(groups, group_keys, indent) ==
    IF groups = <<>> THEN <<>>
    ELSE <<Header(indent, Head(groups)[1])>>
         \o group_and_dump(Tail(group_keys), Head(groups)[2], indent \o Spaces(4))
         \o DumpGroups(Tail(groups), group_keys, indent)

group_and_dump(group_keys, anns, indent) ==
    LET group_key == GroupKey(group_keys)
    IN  IF group_key = NoKey
        THEN [i \in 1..Len(anns) |-> format_annotation(anns[i], indent)]
        ELSE DumpGroups(GroupBy(Sorted(anns, group_key), group_key, <<>>),
                        group_keys, indent)

\* ------------------------------------------------------------ input domains
Str1(c) == <<c>>

Ann1 == Annotation(Str1("2"), Str1("d"), Str1("y"), <<"a", NL, "b">>, <<>>)

Ann2 == Annotation(Str1("1"), Str1("c"), Str1("g"), Str1("b"), Str1("n"))

Ann3 == Annotation(Str1("2"), Str1("c"), Str1("y"), <<"a", " ", " ", "b">>, Str1("n"))

Ann4 == Annotation(Str1("1"), Str1("d"), Str1("g"), Str1("a"), <<>>)

AnnPool == {Ann1, Ann2, Ann3, Ann4}

SeqsUpTo(S, n) == UNION {[1..m -> S] : m \in 0..n}

AnnLists == SeqsUpTo(AnnPool, MaxAnns)

KeyNames == {"chapter", "date", "all"}

KeyLists == SeqsUpTo(KeyNames, MaxKeys)

Indents == {Spaces(0), Spaces(2), Spaces(4)}

EmptyColorMap == [k \in {} |-> <<>>]

MarkerColorMap ==
    (Str1("y") :> Hashes(2)) @@ (Str1("g") :> Str1(">")) @@ (NoteKey :> Str1("!"))

ColorMaps == {EmptyColorMap, MarkerColorMap}

Config(meta, app, date, chap, gb, cm, jt, out) ==
    [include_metadata |-> meta, append_file |-> app,
     include_date_in_notes |-> date, include_chapter_in_notes |-> chap,
     group_by |-> gb, color_map |-> cm, join_titles |-> jt, dump_stdout |-> out]

\* group_by is a str or a list of str
GroupByStr(s) == [is_str |-> TRUE, val |-> s]

GroupByList(l) == [is_str |-> FALSE, val |-> l]

NoDocument == [is_none |-> TRUE, text |-> <<>>]

Document(t) == [is_none |-> FALSE, text |-> t]

NoMetaData == [title |-> <<>>, author |-> <<>>, source |-> <<>>, imported |-> <<>>]

PipeIdle ==
    /\ mailbox = <<>>
    /\ files = <<>>
    /\ stdout = <<>>
    /\ pc = "off"
    /\ idx = 0
    /\ metadata = NoMetaData
    /\ annotations = <<>>
    /\ md = NoDocument
    /\ status = "off"

RenderIdle ==
    /\ rkeys = <<>>
    /\ ranns = <<>>
    /\ rindent = <<>>
    /\ rop = "idle"
    /\ rout = <<>>
    /\ rerr = "none"
    /\ rpost = <<>>

\* ---------------------------------------------- calls of the pure functions
RenderInit ==
    /\ cfg \in {Config(TRUE, FALSE, d, c, GroupByStr("all"), cm, jt, FALSE) :
                  d \in BOOLEAN, c \in BOOLEAN, cm \in ColorMaps, jt \in BOOLEAN}
    /\ PipeIdle
    /\ RenderIdle

CallGroupAndDump ==
    /\ rop = "idle"
    /\ \E keys \in KeyLists, anns \in AnnLists, indent \in Indents :
          /\ rkeys' = keys
          /\ ranns' = anns
          /\ rindent' = indent
          /\ IF RaisesIndexError(keys, anns)
             THEN /\ rerr' = "IndexError"
                  /\ rout' = <<>>
                  /\ rpost' = anns
             ELSE /\ rerr' = "none"
                  /\ rout' = group_and_dump(keys, anns, indent)
                  /\ rpost' = [i \in 1..Len(anns) |->
                                 [anns[i] EXCEPT !.text = TextAfterFormat(anns[i])]]
    /\ rop' = "group"
    /\ UNCHANGED <<cfg, pipevars>>

CallFormatAnnotation ==
    /\ rop = "idle"
    /\ \E a \in AnnPool, indent \in Indents :
          /\ ranns' = <<a>>
          /\ rindent' = indent
          /\ rout' = <<format_annotation(a, indent)>>
          /\ rpost' = <<[a EXCEPT !.text = TextAfterFormat(a)]>>
    /\ rop' = "format"
    /\ rkeys' = <<>>
    /\ rerr' = "none"
    /\ UNCHANGED <<cfg, pipevars>>

RenderNext == CallGroupAndDump \/ CallFormatAnnotation

RenderSpec == RenderInit /\ [][RenderNext]_vars

\* ----------------------------------------------------- reading the output
Range(f) == {f[i] : i \in DOMAIN f}

RECURSIVE SumOver(_, _)
SumOver(f, n) == IF n = 0 THEN 0 ELSE f[n] + SumOver(f, n - 1)

LineCount(s) == 1 + Cardinality({i \in 1..Len(s) : s[i] = NL})

TotalLines(out) == SumOver([i \in 1..Len(out) |-> LineCount(out[i])], Len(out))

RECURSIVE SplitLines(_)
SplitLines(s) ==
    IF \E i \in 1..Len(s) : s[i] = NL
    THEN LET p == CHOOSE i \in 1..Len(s) :
                     s[i] = NL /\ \A j \in 1..(i - 1) : s[j] /= NL
         IN  <<SubSeq(s, 1, p - 1)>> \o SplitLines(SubSeq(s, p + 1, Len(s)))
    ELSE <<s>>

LeadingSpaces(s) ==
    IF \A i \in 1..Len(s) : s[i] = " " THEN Len(s)
    ELSE (CHOOSE i \in 1..Len(s) : s[i] /= " " /\ \A j \in 1..(i - 1) : s[j] = " ") - 1

StartsWith(s, p) == Len(s) >= Len(p) /\ SubSeq(s, 1, Len(p)) = p

BagOfSeq(s) == [x \in Range(s) |-> Cardinality({i \in 1..Len(s) : s[i] = x})]

BreakFree(a) ==
    \A f \in {"date", "chapter", "text", "note"} : NL \notin Range(a[f])

\* the grouping levels applied: the leading keys that are Annotation fields
RECURSIVE AppliedDepth(_)
AppliedDepth(keys) ==
    IF keys = <<>> \/ Head(keys) \notin AnnotationFields THEN 0
    ELSE 1 + AppliedDepth(Tail(keys))

\* distinct group values at grouping level j, counted inside each parent
GroupPaths(keys, anns, j) ==
    {[i \in 1..j |-> anns[n][keys[i]]] : n \in 1..Len(anns)}

HeadingCount(keys, anns) ==
    LET d == AppliedDepth(keys)
    IN  SumOver([j \in 1..d |-> Cardinality(GroupPaths(keys, anns, j))], d)

NominalLines(anns) ==
    SumOver([i \in 1..Len(anns) |-> IF anns[i].note = <<>> THEN 1 ELSE 2], Len(anns))

\* the distinct values of a set of strings, ascending
RECURSIVE Ascending(_)
Ascending(S) ==
    IF S = {} THEN <<>>
    ELSE LET m == CHOOSE v \in S : \A w \in S \ {v} : StrLess(v, w)
         IN  <<m>> \o Ascending(S \ {m})

Members(anns, k, v) == SelectSeq(anns, LAMBDA a : a[k] = v)

Grouped(keys, anns) ==
    rop = "group" /\ rkeys = keys /\ ranns = anns /\ rerr = "none"

\* C1 as stated: lines = sum of (1 without a note, 2 with one) + headings
C1_LineCountAsStated ==
    (rop = "group" /\ ranns /= <<>>) =>
        /\ rerr = "none"
        /\ TotalLines(rout) = NominalLines(ranns) + HeadingCount(rkeys, ranns)

\* C1 amended: for a non-empty list of annotations none of whose fields
\* holds a line break, the lines of the output are the annotations' lines
\* (1 without a note, 2 with one) plus one heading per distinct group value
\* at each applied level, counted inside each parent group
C1_LineCount ==
    (rop = "group" /\ ranns /= <<>> /\ \A i \in 1..Len(ranns) : BreakFree(ranns[i])) =>
        /\ rerr = "none"
        /\ TotalLines(rout) = NominalLines(ranns) + HeadingCount(rkeys, ranns)
        /\ TotalLines(rout) =
              SumOver([i \in 1..Len(ranns) |->
                         LineCount(format_annotation(ranns[i], <<>>))], Len(ranns))
              + HeadingCount(rkeys, ranns)

C1_Witness ==
    /\ Grouped(<<"chapter", "date">>, <<Ann3, Ann4, Ann2>>)
    /\ TotalLines(rout) = 10

\* C4 as stated: empty keys, an unknown first key or an empty list all end
\* in the terminal case, the formatted annotations and no failure
C4_TerminalCase ==
    (rop = "group" /\ (rkeys = <<>> \/ rkeys[1] \notin AnnotationFields \/ ranns = <<>>)) =>
        /\ rerr = "none"
        /\ rout = [i \in 1..Len(ranns) |-> format_annotation(ranns[i], rindent)]

FormatLinesOK(a, block, indent) ==
    LET ls == SplitLines(block)
    IN  /\ LeadingSpaces(ls[1]) = Len(indent)
        /\ a.note = <<>> => Len(ls) = 1
        /\ a.note /= <<>> =>
              /\ Len(ls) = 2
              /\ LeadingSpaces(ls[2]) = LeadingSpaces(ls[1]) + 4
              /\ StartsWith(ls[2], indent \o Spaces(4) \o <<"-", " ">>)

\* C7 as stated: one line without a note, two with one, for every input
C7_OneOrTwoLinesAsStated ==
    rop = "format" => FormatLinesOK(ranns[1], rout[1], rindent)

\* C7 amended: for an annotation whose text, note, chapter and date hold no
\* line break, the block is one line without a note and two with one, the
\* second indented four spaces deeper than the first
C7_OneOrTwoLines ==
    (rop = "format" /\ BreakFree(ranns[1])) =>
        FormatLinesOK(ranns[1], rout[1], rindent)

C7_Witness ==
    /\ rop = "format"
    /\ ranns = <<Ann3>>
    /\ rindent = Spaces(2)
    /\ Len(SplitLines(rout[1])) = 2

\* the renderer restated by selection: each distinct value in ascending
\* order, its heading, then the rendering of its members in document order
RECURSIVE RenderBySelection(_, _, _)
RECURSIVE RenderValues(_, _, _, _)
RenderValues(vals, keys, anns, indent) ==
    IF vals = <<>> THEN <<>>
    ELSE <<Header(indent, Head(vals))>>
         \o RenderBySelection(Tail(keys), Members(anns, keys[1], Head(vals)),
                              indent \o Spaces(4))
         \o RenderValues(Tail(vals), keys, anns, indent)

RenderBySelection(keys, anns, indent) ==
    IF keys = <<>> \/ keys[1] \notin AnnotationFields
    THEN [i \in 1..Len(anns) |-> format_annotation(anns[i], indent)]
    ELSE RenderValues(Ascending({anns[i][keys[1]] : i \in 1..Len(anns)}),
                      keys, anns, indent)

\* C8: groups come in ascending order of the key value, one heading per
\* distinct value under its parent, the group's whole output right after
\* its heading, and a leaf group keeps the document order
C8_SortedGroups ==
    (rop = "group" /\ ranns /= <<>>) =>
        /\ rerr = "none"
        /\ rout = RenderBySelection(rkeys, ranns, rindent)

C8_Witness ==
    /\ Grouped(<<"chapter">>, <<Ann1, Ann3, Ann2>>)
    /\ rout[1] = Header(rindent, Str1("c"))
    /\ rout[2] = format_annotation(Ann3, rindent \o Spaces(4))
    /\ rout[3] = format_annotation(Ann2, rindent \o Spaces(4))

\* number of list elements under a call, by counting
RECURSIVE OutLen(_, _)
OutLen(keys, anns) ==
    IF keys = <<>> \/ keys[1] \notin AnnotationFields THEN Len(anns)
    ELSE LET vals == Ascending({anns[i][keys[1]] : i \in 1..Len(anns)})
         IN  SumOver([j \in 1..Len(vals) |->
                        1 + OutLen(Tail(keys), Members(anns, keys[1], vals[j]))],
                     Len(vals))

IsHeadingAt(h, d) ==
    /\ Len(h) >= 5 * d + 4
    /\ LeadingSpaces(h) = 4 * d
    /\ h[4 * d + 1] = "-"
    /\ h[4 * d + 2] = " "
    /\ \A i \in 1..(d + 1) : h[4 * d + 2 + i] = "#"
    /\ h[5 * d + 4] = " "

RECURSIVE HeadingsAtDepth(_, _, _, _)
HeadingsAtDepth(keys, anns, d, out) ==
    IF keys = <<>> \/ keys[1] \notin AnnotationFields
    THEN \A i \in 1..Len(out) : LeadingSpaces(out[i]) = 4 * d
    ELSE LET k == keys[1]
             vals == Ascending({anns[i][k] : i \in 1..Len(anns)})
             size == [j \in 1..Len(vals) |->
                        1 + OutLen(Tail(keys), Members(anns, k, vals[j]))]
             start(j) == 1 + SumOver(size, j - 1)
         IN  /\ Len(out) = SumOver(size, Len(vals))
             /\ \A j \in 1..Len(vals) :
                   /\ IsHeadingAt(out[start(j)], d)
                   /\ HeadingsAtDepth(Tail(keys), Members(anns, k, vals[j]), d + 1,
                                      SubSeq(out, start(j) + 1, start(j) + size[j] - 1))

\* C9: started at indent "", a heading at depth d has 4*d spaces and d+1
\* '#', and the annotations below the last heading level sit 4 deeper
C9_HeadingLevels ==
    (rop = "group" /\ ranns /= <<>> /\ rindent = <<>>) =>
        /\ rerr = "none"
        /\ HeadingsAtDepth(rkeys, ranns, 0, rout)

C9_Witness ==
    /\ Grouped(<<"date", "chapter">>, <<Ann1, Ann2, Ann4>>)
    /\ rindent = <<>>
    /\ rout[1] = <<"-", " ", "#", " ", "1">>
    /\ rout[2] = Spaces(4) \o <<"-", " ", "#", "#", " ", "c">>
    /\ LeadingSpaces(rout[3]) = 8

\* C10: every input annotation is rendered exactly once, at the indent of
\* the last applied level, and no line lies deeper than len(group_keys)
C10_EachOnce ==
    (rop = "group" /\ ranns /= <<>>) =>
        LET leaf == rindent \o Spaces(4 * AppliedDepth(rkeys))
            blocks == SelectSeq(rout, LAMBDA s : LeadingSpaces(s) = Len(leaf))
        IN  /\ rerr = "none"
            /\ BagOfSeq(blocks) =
                  BagOfSeq([i \in 1..Len(ranns) |-> format_annotation(ranns[i], leaf)])
            /\ Len(rout) = Len(ranns) + HeadingCount(rkeys, ranns)
            /\ \A i \in 1..Len(rout) :
                  LeadingSpaces(rout[i]) <= Len(rindent) + 4 * Len(rkeys)

C10_Witness ==
    /\ Grouped(<<"chapter", "date">>, <<Ann2, Ann1, Ann2>>)
    /\ Len(rout) = 7

\* --------------------------------------------- _extract_annotations_from_html
NotSpecified == <<"N", "o", "t", " ", "s", "p", "e", "c", "i", "f", "i", "e", "d">>

Stamp == <<"2", "0", "2", "6">>

None == [present |-> FALSE, text |-> <<>>]

Elem(t) == [present |-> TRUE, text |-> t]

extract_if_not_none(elem) ==
    IF elem.present THEN Strip(elem.text) ELSE NotSpecified

\* the html of a message, by the nodes the scraper looks for; the annotation
\* nodes are given by the Annotation each one yields
Html(h1, h2, citation, anns) ==
    [h1 |-> h1, h2 |-> h2, citation |-> citation, anns |-> anns]

extract_annotations_from_html(html) ==
    LET title == extract_if_not_none(html.h1)
        author == extract_if_not_none(html.h2)
        ref0 == extract_if_not_none(html.citation)
        ref == IF ref0 /= NotSpecified THEN Strip(FirstLine(ref0)) ELSE ref0
    IN  <<[title |-> title, author |-> author, source |-> ref, imported |-> Stamp],
          html.anns>>

\* ------------------------------------------------------- generate_markdown
TitleKey == <<"-", " ", "t", "i", "t", "l", "e", ":", ":", " ", "\"">>

AuthorKey == <<" ", " ", "a", "u", "t", "h", "o", "r", ":", ":", " ", "\"">>

SourceKey == <<" ", " ", "s", "o", "u", "r", "c", "e", ":", ":", " ", "\"">>

ImportedKey == <<" ", " ", "i", "m", "p", "o", "r", "t", "e", "d", ":", ":", " ">>

Quote == <<"\"">>

MetadataLines(m) ==
    << TitleKey \o m.title \o Quote,
       AuthorKey \o m.author \o Quote,
       SourceKey \o m.source \o Quote,
       ImportedKey \o m.imported >>

NormalizedKeys(group_by) ==
    IF group_by.is_str THEN <<group_by.val>> ELSE group_by.val

\* variant: the metadata block is appended after the renderer's output
generate_markdown_header_last(m, anns) ==
    IF anns = <<>> THEN NoDocument
    ELSE LET head == IF cfg.include_metadata THEN MetadataLines(m) ELSE <<>>
             group_keys == NormalizedKeys(cfg.group_by)
         IN  Document(JoinLines(group_and_dump(group_keys, anns, <<>>) \o head))

generate_markdown(m, anns) ==
    IF anns = <<>> THEN NoDocument
    ELSE LET head == IF cfg.include_metadata THEN MetadataLines(m) ELSE <<>>
             group_keys == NormalizedKeys(cfg.group_by)
         IN  Document(JoinLines(head \o group_and_dump(group_keys, anns, <<>>)))

\* ----------------------------------------------------------- dump_markdown
Unsafe == {"/", "\\", ":", "*", "?", "\"", "<", ">", "|", NL}

sanitize(fname) == SelectSeq(fname, LAMBDA c : c \notin Unsafe)

FileName(m) == m.title \o <<"-">> \o m.author \o <<"-", "N", "o", "t", "e", "s", ".", "m", "d">>

Output(kind, text) == [kind |-> kind, text |-> text]

\* open(fname, mode): "w" creates or truncates, "a" creates or keeps
Opened(fname, mode) ==
    IF mode = "a" /\ fname \in DOMAIN files THEN files[fname] ELSE <<>>

Stored(fname, data) ==
    [n \in DOMAIN files \cup {fname} |-> IF n = fname THEN data ELSE files[n]]

\* the effect of dump_markdown(md, fname): <<files, stdout, raised>>
dump_markdown(doc, fname0) ==
    IF cfg.dump_stdout
    THEN <<files,
           Append(stdout, Output("md", IF doc.is_none THEN <<"N", "o", "n", "e">> ELSE doc.text)),
           FALSE>>
    ELSE LET mode == IF cfg.append_file THEN "a" ELSE "w"
             fname == sanitize(fname0)
             data0 == Opened(fname, mode)
             data1 == IF cfg.append_file THEN data0 \o <<NL>> ELSE data0
         IN  IF doc.is_none
             THEN <<Stored(fname, data1), stdout, TRUE>>
             ELSE <<Stored(fname, data1 \o doc.text),
                    Append(stdout, Output("written", fname)), FALSE>>

\* ---------------------------------------------------------- process_emails
HtmlEmpty == Html(Elem(<<"T">>), Elem(<<"U">>), None, <<>>)

HtmlNotes ==
    Html(Elem(<<" ", "T">>), Elem(<<"U", NL>>), Elem(<<"s", " ", NL, "x">>),
         <<Ann1, Ann3, Ann2>>)

HtmlBare == Html(None, None, None, <<Ann4, Ann2>>)

HtmlPool == {HtmlEmpty, HtmlNotes, HtmlBare}

OldNotes == <<"o", "l", "d">>

GroupBys ==
    {GroupByStr("all"), GroupByStr("chapter"), GroupByList(<<"date", "chapter">>)}

Init ==
    /\ cfg \in {Config(meta, app, d, c, gb, cm, jt, out) :
                  meta \in BOOLEAN, app \in BOOLEAN, d \in BOOLEAN, c \in BOOLEAN,
                  gb \in GroupBys, cm \in ColorMaps, jt \in BOOLEAN, out \in BOOLEAN}
    /\ mailbox \in SeqsUpTo(HtmlPool, MaxMsgs)
    /\ files \in {[n \in {} |-> <<>>],
                  [n \in {sanitize(FileName([title |-> <<"T">>, author |-> <<"U">>]))}
                      |-> OldNotes]}
    /\ stdout = <<>>
    /\ pc = "search"
    /\ idx = 0
    /\ metadata = NoMetaData
    /\ annotations = <<>>
    /\ md = NoDocument
    /\ status = "running"
    /\ RenderIdle

\* lines 187-198: connect, search (either search command yields the ids of
\* the matching messages), and return when nothing matches
Search ==
    /\ pc = "search"
    /\ IF mailbox = <<>>
       THEN /\ stdout' = Append(stdout, Output("no_email", <<>>))
            /\ pc' = "done"
            /\ status' = "returned"
            /\ idx' = idx
       ELSE /\ stdout' = stdout
            /\ pc' = "fetch"
            /\ status' = status
            /\ idx' = 1
    /\ UNCHANGED <<cfg, mailbox, files, metadata, annotations, md, rendervars>>

\* lines 200-201
Fetch ==
    /\ pc = "fetch"
    /\ LET r == extract_annotations_from_html(mailbox[idx])
       IN  /\ metadata' = r[1]
           /\ annotations' = r[2]
    /\ pc' = "generate"
    /\ UNCHANGED <<cfg, mailbox, files, stdout, idx, md, status, rendervars>>

\* line 202; formatting rewrites the text of the joined titles in place
Generate ==
    /\ pc = "generate"
    /\ md' = generate_markdown(metadata, annotations)
    /\ annotations' = [i \in 1..Len(annotations) |->
                         [annotations[i] EXCEPT !.text = TextAfterFormat(annotations[i])]]
    /\ pc' = "dump"
    /\ UNCHANGED <<cfg, mailbox, files, stdout, idx, metadata, status, rendervars>>

\* lines 203-204 and the loop's step
Dump ==
    /\ pc = "dump"
    /\ LET r == dump_markdown(md, FileName(metadata))
       IN  /\ files' = r[1]
           /\ stdout' = r[2]
           /\ IF r[3]
              THEN /\ status' = "crashed"
                   /\ pc' = "done"
                   /\ idx' = idx
              ELSE IF idx < Len(mailbox)
              THEN /\ status' = status
                   /\ pc' = "fetch"
                   /\ idx' = idx + 1
              ELSE /\ status' = "returned"
                   /\ pc' = "done"
                   /\ idx' = idx
    /\ UNCHANGED <<cfg, mailbox, metadata, annotations, md, rendervars>>

Next == Search \/ Fetch \/ Generate \/ Dump

Spec == Init /\ [][Next]_vars

\* C2 as stated: a message without annotations gives no document and its
\* dump leaves every file as it was
C2_EmptyWritesNoFile ==
    [][(pc = "dump" /\ annotations = <<>>) => (md.is_none /\ files' = files)]_vars

\* C3 as stated: a message without annotations is skipped without a crash
\* and the loop goes on to the next message id
C3_EmptyIsSkipped ==
    [][(pc = "dump" /\ annotations = <<>>) =>
          /\ status' /= "crashed"
          /\ idx < Len(mailbox) => (pc' = "fetch" /\ idx' = idx + 1)]_vars

IsMetadataLine(l) ==
    \/ StartsWith(l, TitleKey)
    \/ StartsWith(l, AuthorKey)
    \/ StartsWith(l, SourceKey)
    \/ StartsWith(l, ImportedKey)

\* C6: when generate_markdown has produced a document (it is about to be
\* dumped): with include_metadata the document opens with the four header lines,
\* once each, and the renderer's output is all that follows; without it no
\* header line occurs
C6_HeaderOnceFirst ==
    (pc = "dump" /\ ~md.is_none) =>
        LET ls == SplitLines(md.text)
            body == JoinLines(group_and_dump(NormalizedKeys(cfg.group_by),
                                             annotations, <<>>))
        IN  IF cfg.include_metadata
            THEN /\ Len(ls) >= 5
                 /\ ls[1] = TitleKey \o metadata.title \o Quote
                 /\ ls[2] = AuthorKey \o metadata.author \o Quote
                 /\ ls[3] = SourceKey \o metadata.source \o Quote
                 /\ ls[4] = ImportedKey \o metadata.imported
                 /\ \A i \in 5..Len(ls) : ~IsMetadataLine(ls[i])
                 /\ JoinLines(SubSeq(ls, 5, Len(ls))) = body
            ELSE /\ \A i \in 1..Len(ls) : ~IsMetadataLine(ls[i])
                 /\ md.text = body

C6_Witness ==
    /\ pc = "dump"
    /\ cfg.include_metadata
    /\ cfg.group_by = GroupByStr("chapter")
    /\ Len(annotations) = 3
    /\ Len(SplitLines(md.text)) >= 9

====
